---------------------------- MODULE Spec2Model ----------------------------
(***************************************************************************)
(* A model of the ASK (amplitude shift keying) simulator of                *)
(* src/src/amplitude_shift_keying.py.                                      *)
(*                                                                         *)
(* Real numbers are fixed-point integers: the real v is the integer        *)
(* v * Scale.  A bit error rate is the exact fraction [num, den].  A time  *)
(* instant of np.linspace(0, 1, S) is the exact fraction <<i, S-1>>.       *)
(* A Python call either returns a value, Ok(v), or raises, Raise(e).       *)
(***************************************************************************)
EXTENDS Integers, Sequences, FiniteSets, TLC

VARIABLES sim, table, files, dirs, pc, n, run, calls, inp, out

vars == <<sim, table, files, dirs, pc, n, run, calls, inp, out>>

---------------------------------------------------------------------------
(* Fixed-point arithmetic.                                                 *)

Scale == 10^6
Half == 10^3

\* floor(a * b / Scale) for 0 <= a, b, without leaving 32 bits.
MulFix(a, b) ==
    LET ah == a \div Half
        al == a % Half
        bh == b \div Half
        bl == b % Half
    IN  ah * bh + (ah * bl + al * bh) \div Half + (al * bl) \div Scale

\* floor(a * p / q) for 0 <= p <= q, without leaving 32 bits.
MulDiv(a, p, q) == (a \div q) * p + ((a % q) * p) \div q

\* floor(sqrt(v)) for 0 <= v.
Isqrt(v) ==
    CHOOSE r \in 0..(v \div 1000 + 1000) : r * r <= v /\ (r + 1) * (r + 1) > v

\* 2 * pi, in fixed point.
TwoPi == (2 * 31415926) \div 10

\* np.sin(x) for 0 <= x <= pi/2 (x in fixed point): the Taylor polynomial
\* up to x^11, in Horner form.
SinQuarter(x) ==
    LET x2 == MulFix(x, x)
        t5 == Scale - x2 \div 110
        t4 == Scale - MulFix(x2, t5) \div 72
        t3 == Scale - MulFix(x2, t4) \div 42
        t2 == Scale - MulFix(x2, t3) \div 20
        t1 == Scale - MulFix(x2, t2) \div 6
        y == MulFix(x, t1)
    IN  IF y > Scale THEN Scale ELSE y

\* np.sin(2 * pi * p / q) for 0 <= p and 0 < q: the angle is reduced to the
\* first quadrant by the symmetries of the sine.
SinTurn(p, q) ==
    LET r == p % q
    IN  IF 4 * r <= q THEN SinQuarter(MulDiv(TwoPi, r, q))
        ELSE IF 2 * r <= q THEN SinQuarter(MulDiv(TwoPi, q - 2 * r, 2 * q))
        ELSE IF 4 * r <= 3 * q THEN -SinQuarter(MulDiv(TwoPi, 2 * r - q, 2 * q))
        ELSE -SinQuarter(MulDiv(TwoPi, q - r, q))

Abs(v) == IF v < 0 THEN -v ELSE v

\* np.round(v, 1): v to one decimal place (the result in tenths), a tie
\* going to the even tenth.
Round1(v) ==
    LET u == Scale \div 10
        q == v \div u
        r == v % u
    IN  IF 2 * r > u THEN q + 1
        ELSE IF 2 * r < u THEN q
        ELSE IF q % 2 = 0 THEN q ELSE q + 1

---------------------------------------------------------------------------
(* Python results.                                                         *)

Ok(v) == [err |-> "none", val |-> v]
Raise(e) == [err |-> e, val |-> <<>>]

---------------------------------------------------------------------------
(* class ASK.                                                              *)

\* np.linspace(0, 1, S): S evenly spaced instants of [0, 1]; one instant, 0,
\* when S = 1.
linspace(S) == [i \in 1..S |-> IF S = 1 THEN <<0, 1>> ELSE <<i - 1, S - 1>>]

\* A variant of __init__ that allots no samples to a bit when bits_num = 0,
\* instead of dividing by it.
init_unchecked(sampling_frec, carry_frec, bits_num, noise) ==
    Ok([sampling_frec |-> sampling_frec,
        carry_frec |-> carry_frec,
        bits_num |-> bits_num,
        noise |-> noise,
        time |-> linspace(sampling_frec),
        samp_per_bit |-> IF bits_num = 0 THEN 0
                         ELSE sampling_frec \div bits_num])

\* ASK.__init__: sampling_frec / bits_num raises for bits_num = 0.
__init__(sampling_frec, carry_frec, bits_num, noise) ==
    IF bits_num = 0 THEN Raise("ZeroDivisionError")
    ELSE Ok([sampling_frec |-> sampling_frec,
             carry_frec |-> carry_frec,
             bits_num |-> bits_num,
             noise |-> noise,
             time |-> linspace(sampling_frec),
             samp_per_bit |-> sampling_frec \div bits_num])

\* ASK.generateCarryWave: sin(2 * pi * carry_frec * t) at every instant t.
generateCarryWave(self) ==
    [i \in 1..Len(self.time) |->
        SinTurn(self.carry_frec * self.time[i][1], self.time[i][2])]

\* ASK.generateSignal: the messages np.random.randint(2, size=bits_num) can
\* return.
generateSignal(self) == [1..self.bits_num -> {0, 1}]

\* np.repeat(message, k): every element k times.
repeat(message, k) ==
    [i \in 1..(Len(message) * k) |-> message[(i - 1) \div k + 1]]

\* A variant of modulation that multiplies up to the shorter of the two
\* lengths instead of raising.
modulation_truncate(self, message, carry_wave) ==
    LET cont_msg == repeat(message, self.samp_per_bit)
        len == IF Len(carry_wave) < Len(cont_msg) THEN Len(carry_wave)
               ELSE Len(cont_msg)
    IN  Ok([i \in 1..len |-> carry_wave[i] * cont_msg[i]])

\* A variant of modulation that adds the stretched message to the carrier.
modulation_add(self, message, carry_wave) ==
    LET cont_msg == repeat(message, self.samp_per_bit)
    IN  IF Len(carry_wave) = Len(cont_msg)
        THEN Ok([i \in 1..Len(carry_wave) |-> carry_wave[i] + cont_msg[i]])
        ELSE Raise("ValueError")

\* ASK.modulation: carry_wave * np.repeat(message, samp_per_bit).  The
\* product of arrays of different lengths is the broadcast of a one-element
\* array, and a ValueError otherwise.
modulation(self, message, carry_wave) ==
    LET cont_msg == repeat(message, self.samp_per_bit)
        lc == Len(carry_wave)
        lm == Len(cont_msg)
    IN  IF lc = lm
        THEN Ok([i \in 1..lc |-> carry_wave[i] * cont_msg[i]])
        ELSE IF lc = 1
        THEN Ok([i \in 1..lm |-> carry_wave[1] * cont_msg[i]])
        ELSE IF lm = 1
        THEN Ok([i \in 1..lc |-> carry_wave[i] * cont_msg[1]])
        ELSE Raise("ValueError")

\* The amplitude cutoff of the demodulator, 0.4.
Cutoff == (4 * Scale) \div 10

\* The samples np.random.normal(0, sigma, 1) can return: 0 for sigma = 0,
\* any real otherwise (here: nothing, or a swing beyond the cutoff).
NoiseSamples(sigma) == IF sigma = 0 THEN {0} ELSE {0, Scale}

\* ASK.addNoise: the noisy signals signal + np.random.normal(0, noise,
\* len(signal)) can be.
addNoise(self, signal) ==
    { [i \in 1..Len(signal) |-> signal[i] + nz[i]] :
        nz \in [1..Len(signal) -> NoiseSamples(self.noise)] }

\* The sum of the first k elements of an array.
RECURSIVE SumTo(_, _)
SumTo(s, k) == IF k = 0 THEN 0 ELSE s[k] + SumTo(s, k - 1)

\* np.sum of an array.
Sum(s) == SumTo(s, Len(s))

\* A variant of chip with the cutoff included.
chip_at_cutoff(v) == IF Abs(v) >= Cutoff THEN 1 ELSE 0

\* The chip of one sample: 1 above the cutoff, 0 at or below it.
chip(v) == IF Abs(v) > Cutoff THEN 1 ELSE 0

\* A variant of vote that asks for more chips than samp_per_bit.
vote_all(self, array) == IF Sum(array) > self.samp_per_bit THEN 1 ELSE 0

\* The majority vote over one segment of chips.
vote(self, array) == IF 2 * Sum(array) > self.samp_per_bit THEN 1 ELSE 0

\* ASK.demodulation.  signal[i] raises IndexError for a signal shorter than
\* sampling_frec; np.split raises for bits_num = 0 (the modulo) and for a
\* bits_num that does not divide sampling_frec.
demodulation(self, signal) ==
    LET S == self.sampling_frec
        b == self.bits_num
    IN  IF Len(signal) < S THEN Raise("IndexError")
        ELSE IF b = 0 THEN Raise("ZeroDivisionError")
        ELSE IF S % b # 0 THEN Raise("ValueError")
        ELSE LET recieved_signal == [i \in 1..S |-> chip(signal[i])]
                 w == S \div b
                 splited == [k \in 1..b |->
                               [j \in 1..w |-> recieved_signal[(k - 1) * w + j]]]
             IN  Ok([k \in 1..b |-> vote(self, splited[k])])

\* A variant of calculateBER that counts the positions that agree.
calculateBER_equal(self, original_message, received_message) ==
    [num |-> Sum([i \in 1..Len(original_message) |->
                    IF original_message[i] = received_message[i] THEN 1 ELSE 0]),
     den |-> self.bits_num]

\* ASK.calculateBER: np.sum(original_message != received_message) over
\* bits_num, for two arrays of equal length.
calculateBER(self, original_message, received_message) ==
    [num |-> Sum([i \in 1..Len(original_message) |->
                    IF original_message[i] # received_message[i] THEN 1 ELSE 0]),
     den |-> self.bits_num]

\* The demo artifact files of data/output/ASK.
DemoFiles ==
    {"message.npy", "signal.npy", "noisy_signal.npy", "received_signal.npy"}

\* np.save(path, array): the demo files after writing `name` (for every file,
\* how many times it has been written; 0: there is no such file): the
\* directory data/output/ASK must exist.
save(fs, ds, name) ==
    IF "data/output/ASK" \in ds THEN Ok([fs EXCEPT ![name] = @ + 1])
    ELSE Raise("FileNotFoundError")

\* A variant of save_to_csv that opens the file in write mode.
save_to_csv_truncate(self, tbl, ds, float_data, EbNodB) ==
    IF "data/output" \in ds
    THEN Ok(<<<<"ASK", self.sampling_frec, self.carry_frec, self.bits_num,
               Round1(self.noise), float_data, EbNodB>>>>)
    ELSE Raise("FileNotFoundError")

\* ASK.save_to_csv: the table after appending one row to data/output/bers.csv
\* (opened in append mode: the directory data/output must exist).
save_to_csv(self, tbl, ds, float_data, EbNodB) ==
    IF "data/output" \in ds
    THEN Ok(Append(tbl, <<"ASK", self.sampling_frec, self.carry_frec,
                          self.bits_num, Round1(self.noise), float_data,
                          EbNodB>>))
    ELSE Raise("FileNotFoundError")

\* No bit error rate: the run computed none.
NoBER == [num |-> 0, den |-> 0]

\* What a run leaves behind: the exception and the step that raised it, the
\* bit error rate it computed, the table and the demo files.
Outcome(err, at, ber, tbl, fs) ==
    [err |-> err, at |-> at, ber |-> ber, table |-> tbl, files |-> fs]

\* ASK.one_run: the outcomes of one run with label EbNodB, one for every
\* message and every noise the random source can draw.
one_run(self, tbl, fs, ds, EbNodB) ==
    LET carry_wave == generateCarryWave(self)
        after(message) ==
            LET signal == modulation(self, message, carry_wave)
            IN  IF signal.err # "none"
                THEN {Outcome(signal.err, "modulation", NoBER, tbl, fs)}
                ELSE
                { LET received_signal == demodulation(self, noisy_signal)
                  IN  IF received_signal.err # "none"
                      THEN Outcome(received_signal.err, "demodulation",
                                   NoBER, tbl, fs)
                      ELSE
                      LET ber == calculateBER(self, message,
                                              received_signal.val)
                          saved == save_to_csv(self, tbl, ds, ber, EbNodB)
                      IN  IF saved.err # "none"
                          THEN Outcome(saved.err, "save_to_csv", ber, tbl, fs)
                          ELSE Outcome("none", "", ber, saved.val, fs)
                  : noisy_signal \in addNoise(self, signal.val) }
    IN  UNION { after(message) : message \in generateSignal(self) }

\* A variant of demo_run that writes the four artifacts once all of them are
\* computed.
demo_run_atomic(self, tbl, fs, ds) ==
    LET carry_wave == generateCarryWave(self)
        after(message) ==
            LET signal == modulation(self, message, carry_wave)
            IN  IF signal.err # "none"
                THEN {Outcome(signal.err, "modulation", NoBER, tbl, fs)}
                ELSE
                { LET received_signal == demodulation(self, noisy_signal)
                      f1 == save(fs, ds, "message.npy")
                      f2 == save(f1.val, ds, "signal.npy")
                      f3 == save(f2.val, ds, "noisy_signal.npy")
                  IN  IF received_signal.err # "none"
                      THEN Outcome(received_signal.err, "demodulation", NoBER,
                                   tbl, fs)
                      ELSE IF f1.err # "none"
                      THEN Outcome(f1.err, "np.save", NoBER, tbl, fs)
                      ELSE Outcome("none", "", NoBER, tbl,
                                   save(f3.val, ds, "received_signal.npy").val)
                  : noisy_signal \in addNoise(self, signal.val) }
    IN  UNION { after(message) : message \in generateSignal(self) }

\* ASK.demo_run: the outcomes of one demo run; every artifact is written as
\* soon as it is computed.
demo_run(self, tbl, fs, ds) ==
    LET carry_wave == generateCarryWave(self)
        after(message) ==
            LET f1 == save(fs, ds, "message.npy")
                signal == modulation(self, message, carry_wave)
            IN  IF f1.err # "none"
                THEN {Outcome(f1.err, "np.save", NoBER, tbl, fs)}
                ELSE IF signal.err # "none"
                THEN {Outcome(signal.err, "modulation", NoBER, tbl, f1.val)}
                ELSE
                { LET f2 == save(f1.val, ds, "signal.npy")
                      f3 == save(f2.val, ds, "noisy_signal.npy")
                      received_signal == demodulation(self, noisy_signal)
                  IN  IF received_signal.err # "none"
                      THEN Outcome(received_signal.err, "demodulation", NoBER,
                                   tbl, f3.val)
                      ELSE Outcome("none", "", NoBER, tbl,
                                   save(f3.val, ds, "received_signal.npy").val)
                  : noisy_signal \in addNoise(self, signal.val) }
    IN  UNION { after(message) : message \in generateSignal(self) }

\* range(12): the operating points of a sweep.
SweepRuns == 12

\* 10.0 ** (k / 10.0) for k in range(12), in fixed point.
EbNoTable ==
    <<1000000, 1258925, 1584893, 1995262, 2511886, 3162278,
      3981072, 5011872, 6309573, 7943282, 10000000, 12589254>>

\* 1 / np.sqrt(2 * EbNo) * 2 for every operating point; the square root is
\* taken to three decimal places.
NoiseTable ==
    [k \in 0..(SweepRuns - 1) |->
        ((Scale * Half) \div Isqrt(2 * EbNoTable[k + 1])) * 2]

\* A variant of the loop body that makes the run before it assigns the noise.
simulate_body_stale(self, tbl, fs, ds, k) ==
    LET self1 == [self EXCEPT !.noise = NoiseTable[k]]
    IN  { [self |-> self1, o |-> o] : o \in one_run(self, tbl, fs, ds, k) }

\* A variant of the loop body that puts the old noise back after the run.
simulate_body_restore(self, tbl, fs, ds, k) ==
    LET self1 == [self EXCEPT !.noise = NoiseTable[k]]
    IN  { [self |-> self, o |-> o] : o \in one_run(self1, tbl, fs, ds, k) }

\* The body of the loop of ASK.simulate for n = k: the noise is assigned,
\* then one run with label k is made with it.
simulate_body(self, tbl, fs, ds, k) ==
    LET self1 == [self EXCEPT !.noise = NoiseTable[k]]
    IN  { [self |-> self1, o |-> o] : o \in one_run(self1, tbl, fs, ds, k) }

---------------------------------------------------------------------------
(* The program: a caller constructs one simulator and calls Run Once       *)
(* (one_run), Run Demo (demo_run) and Run Sweep (simulate) on it, one call *)
(* at a time.  `run` holds the last call: its name and arguments, the      *)
(* exception it raised and where, the bit error rate it computed, the      *)
(* length of the table when it was entered and the demo files it wrote.    *)
(* A sweep is the one call that is modelled a loop iteration at a time     *)
(* (pc = "sweep", n the next index); no other call starts before it ends.  *)

\* The most top-level run calls of one behaviour.
MaxCalls == 2
\* The most rows of the results table: a sweep starts only with room for its
\* rows.
MaxRows == 13

\* The constructor's arguments: sampling_frec, carry_frec, bits_num, noise.
\* bits_num divides sampling_frec in the first two, not in the next two, and
\* is 0 in the last.
Configs ==
    { <<4, 1, 1, 0>>, <<1, 1, 1, Scale \div 4>>,
      <<4, 1, 3, 0>>, <<1, 1, 2, Scale \div 4>>,
      <<4, 1, 0, 0>> }
RunLabels == {20}
\* The output directories that exist: none, or both.
DirSets == {{}, {"data/output", "data/output/ASK"}}

NoSim == [constructed |-> FALSE]

Call(op, args, o, len0, wrote, done) ==
    [op |-> op, args |-> args, err |-> o.err, at |-> o.at, ber |-> o.ber,
     len0 |-> len0, wrote |-> wrote, done |-> done]

NoFiles == [f \in DemoFiles |-> 0]

NoOutcome == Outcome("none", "", NoBER, <<>>, NoFiles)

\* The demo files a call wrote.
Written(fs0, fs1) == {f \in DemoFiles : fs1[f] > fs0[f]}

NoCall == Call("none", <<>>, NoOutcome, 0, {}, FALSE)

Init ==
    /\ sim = NoSim
    /\ table = <<>>
    /\ files = NoFiles
    /\ dirs \in DirSets
    /\ pc = "new"
    /\ n = 0
    /\ run = NoCall
    /\ calls = 0
    /\ inp = "-"
    /\ out = "-"

\* ASK(sampling_frec, carry_frec, bits_num, noise).
Construct(S, F, b, sigma) ==
    /\ pc = "new"
    /\ LET r == __init__(S, F, b, sigma)
       IN  /\ sim' = IF r.err = "none" THEN r.val ELSE NoSim
           /\ pc' = IF r.err = "none" THEN "idle" ELSE "failed"
           /\ run' = Call("__init__", <<S, F, b, sigma>>,
                          Outcome(r.err,
                                  IF r.err = "none" THEN "" ELSE "__init__",
                                  NoBER, <<>>, NoFiles),
                          0, {}, r.err = "none")
    /\ UNCHANGED <<table, files, dirs, n, calls, inp, out>>

\* sim.one_run(EbNodB).
RunOnce(EbNodB) ==
    /\ pc = "idle"
    /\ calls < MaxCalls
    /\ Len(table) < MaxRows
    /\ \E o \in one_run(sim, table, files, dirs, EbNodB) :
          /\ table' = o.table
          /\ files' = o.files
          /\ run' = Call("one_run", <<EbNodB>>, o, Len(table),
                         Written(files, o.files), o.err = "none")
    /\ calls' = calls + 1
    /\ UNCHANGED <<sim, dirs, pc, n, inp, out>>

\* sim.demo_run().
RunDemo ==
    /\ pc = "idle"
    /\ calls < MaxCalls
    /\ \E o \in demo_run(sim, table, files, dirs) :
          /\ table' = o.table
          /\ files' = o.files
          /\ run' = Call("demo_run", <<>>, o, Len(table),
                         Written(files, o.files), o.err = "none")
    /\ calls' = calls + 1
    /\ UNCHANGED <<sim, dirs, pc, n, inp, out>>

\* sim.simulate(): one iteration of its loop; the first one enters the call,
\* the last one (or a raising one) leaves it.
RunSweep ==
    /\ pc \in {"idle", "sweep"}
    /\ pc = "idle" => calls < MaxCalls /\ Len(table) + SweepRuns <= MaxRows
    /\ LET k == IF pc = "idle" THEN 0 ELSE n
           len0 == IF pc = "idle" THEN Len(table) ELSE run.len0
       IN  \E s \in simulate_body(sim, table, files, dirs, k) :
              LET more == s.o.err = "none" /\ k + 1 < SweepRuns
              IN  /\ sim' = s.self
                  /\ table' = s.o.table
                  /\ files' = s.o.files
                  /\ pc' = IF more THEN "sweep" ELSE "idle"
                  /\ n' = IF more THEN k + 1 ELSE 0
                  /\ run' = Call("simulate", <<k>>, s.o, len0,
                                 Written(files, s.o.files),
                                 s.o.err = "none" /\ ~more)
    /\ calls' = IF pc = "idle" THEN calls + 1 ELSE calls
    /\ UNCHANGED <<dirs, inp, out>>

Next ==
    \/ \E c \in Configs : Construct(c[1], c[2], c[3], c[4])
    \/ \E EbNodB \in RunLabels : RunOnce(EbNodB)
    \/ RunDemo
    \/ RunSweep

Spec == Init /\ [][Next]_vars

---------------------------------------------------------------------------
(* The operations of one simulator called on their own: a caller makes one *)
(* call of modulation, demodulation or calculateBER; inp holds the call    *)
(* and its arguments, out its result.                                      *)

\* The largest sampling_frec, bits_num and message length of a lone call.
MaxSamplingFrec == 4
MaxBitsNum == 5
MaxLen == 5

\* The sample values of a carrier wave handed to modulation.
CarrierVals == {-Scale, 0, Scale \div 2}

\* The sample values of a signal handed to demodulation: 0, 0.4 and 0.4001,
\* of either sign.
SignalVals ==
    {0, Cutoff, -Cutoff, Cutoff + Scale \div 10000, -(Cutoff + Scale \div 10000)}

InitFn ==
    /\ sim \in { __init__(S, 1, b, 0).val :
                   S \in 1..MaxSamplingFrec, b \in 1..MaxBitsNum }
    /\ table = <<>>
    /\ files = NoFiles
    /\ dirs = {}
    /\ pc = "fn"
    /\ n = 0
    /\ run = NoCall
    /\ calls = 0
    /\ inp = [op |-> "none"]
    /\ out = Ok(<<>>)

\* sim.modulation(message, carry_wave).
Modulate ==
    /\ pc = "fn"
    /\ inp.op = "none"
    /\ \E message \in [1..sim.bits_num -> {0, 1}],
          carry_wave \in [1..sim.sampling_frec -> CarrierVals] :
          /\ inp' = [op |-> "modulation", message |-> message,
                     carry_wave |-> carry_wave]
          /\ out' = modulation(sim, message, carry_wave)
    /\ UNCHANGED <<sim, table, files, dirs, pc, n, run, calls>>

\* sim.demodulation(signal).
Demodulate ==
    /\ pc = "fn"
    /\ inp.op = "none"
    /\ \E signal \in [1..sim.sampling_frec -> SignalVals] :
          /\ inp' = [op |-> "demodulation", signal |-> signal]
          /\ out' = demodulation(sim, signal)
    /\ UNCHANGED <<sim, table, files, dirs, pc, n, run, calls>>

\* sim.calculateBER(original_message, received_message), the two of one
\* length.
BitErrorRate ==
    /\ pc = "fn"
    /\ inp.op = "none"
    /\ \E len \in 0..MaxLen :
          \E original_message \in [1..len -> {0, 1}],
             received_message \in [1..len -> {0, 1}] :
             /\ inp' = [op |-> "calculateBER",
                        original_message |-> original_message,
                        received_message |-> received_message]
             /\ out' = Ok(calculateBER(sim, original_message,
                                       received_message))
    /\ UNCHANGED <<sim, table, files, dirs, pc, n, run, calls>>

NextFn == Modulate \/ Demodulate \/ BitErrorRate

SpecFn == InitFn /\ [][NextFn]_vars

---------------------------------------------------------------------------
(* The noise-free round trip of ASK(1000, 10, 10, 0): a message is         *)
(* generated, modulated onto the generated carrier wave, passed through    *)
(* addNoise and demodulated, and the bit error rate is computed.           *)

InitRT ==
    /\ sim = __init__(1000, 10, 10, 0).val
    /\ table = <<>>
    /\ files = NoFiles
    /\ dirs = {}
    /\ pc = "rt"
    /\ n = 0
    /\ run = NoCall
    /\ calls = 0
    /\ inp = [op |-> "none"]
    /\ out = Ok(<<>>)

RoundTrip ==
    /\ pc = "rt"
    /\ inp.op = "none"
    /\ \E carry_wave \in {generateCarryWave(sim)} :
           \E message \in generateSignal(sim) :
              LET signal == modulation(sim, message, carry_wave)
              IN  /\ inp' = [op |-> "round_trip", message |-> message]
                  /\ IF signal.err # "none"
                     THEN out' = [err |-> signal.err, val |-> <<>>,
                                  ber |-> NoBER]
                     ELSE \E noisy_signal \in addNoise(sim, signal.val) :
                        LET received == demodulation(sim, noisy_signal)
                        IN  out' = [err |-> received.err,
                                    val |-> received.val,
                                    ber |-> IF received.err # "none"
                                            THEN NoBER
                                            ELSE calculateBER(sim, message,
                                                              received.val)]
    /\ UNCHANGED <<sim, table, files, dirs, pc, n, run, calls>>

NextRT == RoundTrip

SpecRT == InitRT /\ [][NextRT]_vars

---------------------------------------------------------------------------
(* Properties.                                                             *)

Divides(self) == self.sampling_frec % self.bits_num = 0

\* The number of positions where two arrays of one length differ.
Differing(a, b) == Cardinality({i \in 1..Len(a) : a[i] # b[i]})

\* The number of samples of segment k (of w samples) whose absolute value
\* is strictly greater than 0.4.
Above(signal, k, w) ==
    Cardinality({i \in ((k - 1) * w + 1)..(k * w) :
                   Abs(signal[i]) > (2 * Scale) \div 5})

\* The row Run Once persists: the tag, the configuration, the noise level to
\* one decimal place (in tenths), the bit error rate and the label.
Row(self, ber, label) ==
    <<"ASK", self.sampling_frec, self.carry_frec, self.bits_num,
      Round1(self.noise), ber, label>>

\* C1: with ASK(1000, 10, 10, 0), for every message of 10 bits, demodulating
\* the noise-added modulated message raises nothing and gives back the
\* message in every position, and the bit error rate of the two is 0.
C1_NoiseFreeRoundTrip ==
    inp.op = "round_trip" =>
        /\ out.err = "none"
        /\ Len(out.val) = 10
        /\ \A k \in 1..10 : out.val[k] = inp.message[k]
        /\ out.ber = [num |-> 0, den |-> 10]

\* A round trip of a message with bits of either value has come back.
C1_Witness ==
    /\ inp.op = "round_trip"
    /\ inp.message = <<1, 0, 1, 1, 0, 0, 1, 0, 1, 1>>
    /\ out.err = "none"
    /\ out.val = inp.message

\* C2 as stated: for any simulator and any two bit sequences of one length,
\* calculateBER returns (number of differing positions) / bits_num, and the
\* result lies in [0, 1].
C2_AnyLength ==
    inp.op = "calculateBER" =>
        /\ out.val.num = Differing(inp.original_message, inp.received_message)
        /\ out.val.den = sim.bits_num
        /\ 0 <= out.val.num /\ out.val.num <= out.val.den

\* C2, amended: for any simulator and any two bit sequences of one length
\* that is at most bits_num, calculateBER returns (number of differing
\* positions) / bits_num, and the result lies in [0, 1].
C2_BitErrorRate ==
    inp.op = "calculateBER" /\ Len(inp.original_message) <= sim.bits_num =>
        /\ out.val.num = Differing(inp.original_message, inp.received_message)
        /\ out.val.den = sim.bits_num
        /\ 0 <= out.val.num /\ out.val.num <= out.val.den

\* The example: [1,0,1,1,0] against [1,1,1,0,0] with 5 bits gives 2/5.
C2_Witness ==
    /\ inp.op = "calculateBER"
    /\ sim.bits_num = 5
    /\ inp.original_message = <<1, 0, 1, 1, 0>>
    /\ inp.received_message = <<1, 1, 1, 0, 0>>
    /\ out.val = [num |-> 2, den |-> 5]

\* C3: for a signal of sampling_frec samples, bits_num dividing
\* sampling_frec, demodulation returns bits_num bits, and bit k is 1 exactly
\* when more than samp_per_bit / 2 samples of segment k are, in absolute
\* value, strictly above 0.4; so 0.4 at every sample gives all 0, 0.4001 at
\* every sample gives all 1, and a segment with exactly half of its samples
\* above gives 0.
C3_DecisionRule ==
    inp.op = "demodulation" /\ Divides(sim) =>
        /\ out.err = "none"
        /\ Len(out.val) = sim.bits_num
        /\ \A k \in 1..sim.bits_num :
              /\ out.val[k] \in {0, 1}
              /\ out.val[k] = 1 <=>
                    2 * Above(inp.signal, k, sim.samp_per_bit)
                       > sim.samp_per_bit
              /\ 2 * Above(inp.signal, k, sim.samp_per_bit) = sim.samp_per_bit
                    => out.val[k] = 0
        /\ (\A i \in 1..sim.sampling_frec : Abs(inp.signal[i]) = (2 * Scale) \div 5)
              => \A k \in 1..sim.bits_num : out.val[k] = 0
        /\ (\A i \in 1..sim.sampling_frec :
                 inp.signal[i] = (2 * Scale) \div 5 + Scale \div 10000)
              => \A k \in 1..sim.bits_num : out.val[k] = 1

\* A signal with a segment of which exactly half is above the cutoff, and
\* one wholly at 0.4001, has been demodulated.
C3_Witness ==
    /\ inp.op = "demodulation"
    /\ sim.sampling_frec = 4
    /\ sim.bits_num = 2
    /\ 2 * Above(inp.signal, 1, 2) = 2
    /\ Above(inp.signal, 2, 2) = 2
    /\ out.val = <<0, 1>>

\* C4: a sweep whose steps all succeed has, after the step of index k,
\* appended the rows labelled 0..k in that order, one each, the noise field of
\* the row labelled j being the schedule's value for j (to one decimal
\* place), the simulator's noise being the schedule's value for k; the
\* schedule strictly decreases; the sweep is complete after index 11, with
\* 12 rows appended.
C4_SweepRows ==
    run.op = "simulate" /\ run.err = "none" =>
        LET k == run.args[1]
        IN  /\ Len(table) = run.len0 + k + 1
            /\ \A j \in 0..k :
                  /\ table[run.len0 + j + 1][7] = j
                  /\ table[run.len0 + j + 1][5] = Round1(NoiseTable[j])
            /\ sim.noise = NoiseTable[k]
            /\ \A j \in 1..k : NoiseTable[j] < NoiseTable[j - 1]
            /\ run.done <=> k = 11
            /\ run.done => Len(table) = run.len0 + 12

\* A sweep has completed on a table that held a row before it.
C4_Witness ==
    /\ run.op = "simulate"
    /\ run.done
    /\ run.len0 = 1
    /\ Len(table) = 13
    /\ table[2][5] = 14
    /\ table[13][5] = 4

\* C5: a successful Run Once with label L appends to the table, leaving its
\* rows as they were, the one row ("ASK", sampling_frec, carry_frec,
\* bits_num, noise to one decimal place, the run's bit error rate, L); a Run
\* Once that raises, and Run Demo, leave the table as it was.
C5_AppendOnly ==
    [][ /\ run'.op = "one_run" /\ run'.err = "none" =>
              /\ Len(table') = Len(table) + 1
              /\ \A j \in 1..Len(table) : table'[j] = table[j]
              /\ table'[Len(table')] = Row(sim, run'.ber, run'.args[1])
              /\ run'.ber.den = sim.bits_num
        /\ run'.op = "one_run" /\ run'.err # "none" => table' = table
        /\ run'.op = "demo_run" => table' = table ]_vars

\* A Run Once has appended its row to a table that held the 12 rows of a
\* sweep.
C5_Witness ==
    /\ run.op = "one_run"
    /\ run.err = "none"
    /\ run.len0 = 12
    /\ Len(table) = 13
    /\ table[13] = Row(sim, run.ber, 20)
    /\ table[12][7] = 11

\* C6 as stated: a Run Once ends with its row persisted or raises with no
\* row, and a Run Demo ends with its four files written or raises with none
\* of them written.
C6_AllOrNothing ==
    /\ run.op = "one_run" =>
          \/ run.err = "none" /\ Len(table) = run.len0 + 1
          \/ run.err # "none" /\ Len(table) = run.len0
    /\ run.op = "demo_run" =>
          \/ run.err = "none" /\ run.wrote = DemoFiles
          \/ run.err # "none" /\ run.wrote = {}

\* C6, amended: a Run Once ends with its row persisted or raises with no row;
\* a Run Demo writes each file as soon as its array is computed, so it has
\* written none when np.save raises (no directory), message alone when
\* modulation raises, message, signal and noisy_signal when demodulation
\* raises, and all four when nothing raises.
C6_DemoPrefix ==
    /\ run.op = "one_run" =>
          \/ run.err = "none" /\ Len(table) = run.len0 + 1
          \/ run.err # "none" /\ Len(table) = run.len0
    /\ run.op = "demo_run" =>
          /\ run.err = "none" <=> run.at = ""
          /\ run.at \in {"", "np.save", "modulation", "demodulation"}
          /\ run.at = "" => run.wrote = DemoFiles
          /\ run.at = "np.save" => run.wrote = {}
          /\ run.at = "modulation" => run.wrote = {"message.npy"}
          /\ run.at = "demodulation" =>
                run.wrote = {"message.npy", "signal.npy", "noisy_signal.npy"}

\* A Run Demo has raised in demodulation, three of its files written.
C6_Witness ==
    /\ run.op = "demo_run"
    /\ run.err = "IndexError"
    /\ run.at = "demodulation"
    /\ run.wrote = {"message.npy", "signal.npy", "noisy_signal.npy"}
    /\ files["received_signal.npy"] = 0

\* C7 as stated: with a sampling_frec that bits_num (> 0) does not divide,
\* Run Once raises nothing and persists one row.
C7_SilentRun ==
    run.op = "one_run" /\ ~Divides(sim) =>
        run.err = "none" /\ Len(table) = run.len0 + 1

\* C7, amended: with a sampling_frec that bits_num (> 0) does not divide,
\* Run Once (on its own or as a step of a sweep) raises and persists no row:
\* modulation raises ValueError (the lengths of the carrier and of the
\* stretched message differ), except for sampling_frec = 1, where modulation
\* returns an empty signal and demodulation raises IndexError.
C7_NonDivisibleRaises ==
    run.op \in {"one_run", "simulate"} /\ ~Divides(sim) =>
        /\ Len(table) = run.len0
        /\ sim.sampling_frec # 1 =>
              run.err = "ValueError" /\ run.at = "modulation"
        /\ sim.sampling_frec = 1 =>
              run.err = "IndexError" /\ run.at = "demodulation"

\* A Run Once of ASK(4, 1, 3, 0) has raised in modulation.
C7_Witness ==
    /\ run.op = "one_run"
    /\ sim.sampling_frec = 4
    /\ sim.bits_num = 3
    /\ "data/output" \in dirs
    /\ run.err = "ValueError"
    /\ table = <<>>

\* C8 as stated: the construction of a simulator with bits_num = 0 raises
\* nothing.
C8_ZeroConstructs ==
    run.op = "__init__" /\ run.args[3] = 0 =>
        run.err = "none" /\ sim # NoSim

\* C8, amended: the construction of a simulator with bits_num = 0 raises
\* ZeroDivisionError in the constructor; there is no simulator with
\* bits_num = 0, and so no run and no bit error rate over 0 bits.
C8_ZeroRaisesInInit ==
    /\ run.op = "__init__" /\ run.args[3] = 0 =>
          /\ run.err = "ZeroDivisionError"
          /\ run.at = "__init__"
          /\ sim = NoSim
          /\ pc = "failed"
    /\ sim # NoSim => sim.bits_num # 0
    /\ run.op \in {"one_run", "demo_run", "simulate"} => sim # NoSim
    /\ \A j \in 1..Len(table) : table[j][6].den # 0

\* The construction ASK(4, 1, 0, 0) has raised.
C8_Witness ==
    /\ run.op = "__init__"
    /\ run.args = <<4, 1, 0, 0>>
    /\ run.err = "ZeroDivisionError"
    /\ sim = NoSim

\* C9: for bits_num dividing sampling_frec, every message of bits_num bits
\* and every carrier of sampling_frec samples, modulation returns
\* sampling_frec samples, sample i being 0 when bit (i div samp_per_bit) of
\* the message is 0 and the carrier's sample i when it is 1.
C9_OnOffKeying ==
    inp.op = "modulation" /\ Divides(sim) =>
        /\ out.err = "none"
        /\ Len(out.val) = sim.sampling_frec
        /\ \A i \in 1..sim.sampling_frec :
              LET bit == inp.message[(i - 1) \div sim.samp_per_bit + 1]
              IN  /\ bit = 0 => out.val[i] = 0
                  /\ bit = 1 => out.val[i] = inp.carry_wave[i]

\* A message with a 0 and a 1 has been modulated onto a carrier that is not 0
\* anywhere.
C9_Witness ==
    /\ inp.op = "modulation"
    /\ sim.sampling_frec = 4
    /\ inp.message = <<0, 1>>
    /\ inp.carry_wave = <<Scale \div 2, -Scale, -Scale, Scale \div 2>>
    /\ out.val = <<0, 0, -Scale, Scale \div 2>>

\* The fields of a simulator but its noise.
Configuration(self) ==
    <<self.sampling_frec, self.carry_frec, self.bits_num, self.time,
      self.samp_per_bit>>

\* C10: no call changes sampling_frec, carry_frec, bits_num, time or
\* samp_per_bit of the constructed simulator; Run Once and Run Demo leave the
\* noise as it is; every step of a sweep, raising or not, leaves the noise at
\* the schedule's value for its index, so at the value for index 11 when the
\* sweep completes; and a Run Once after a completed sweep persists that
\* noise.
C10_ConfigurationFrame ==
    [][ sim # NoSim =>
          /\ sim' # NoSim
          /\ Configuration(sim') = Configuration(sim)
          /\ run'.op \in {"one_run", "demo_run"} => sim'.noise = sim.noise
          /\ run'.op = "simulate" => sim'.noise = NoiseTable[run'.args[1]]
          /\ run'.op = "simulate" /\ run'.done =>
                sim'.noise = NoiseTable[SweepRuns - 1]
          /\ run.op = "simulate" /\ run.done /\ run'.op = "one_run"
                /\ run'.err = "none" =>
                table'[Len(table')][5] = Round1(NoiseTable[SweepRuns - 1]) ]_vars

\* A Run Once after a completed sweep of ASK(1, 1, 1, 0.25) has persisted
\* the noise of index 11.
C10_Witness ==
    /\ run.op = "one_run"
    /\ run.err = "none"
    /\ Len(table) = 13
    /\ table[12][7] = 11
    /\ sim.noise = NoiseTable[11]
    /\ sim.noise # Scale \div 4
    /\ Configuration(sim) = Configuration(__init__(1, 1, 1, Scale \div 4).val)
    /\ table[13][5] = 4

=============================================================================
